---- MODULE Spec2Model ----
(***************************************************************************)
(* Model of the medQueryBot retrieval-augmented pipeline:                  *)
(*   src/src/cache.py       ResultCache (papers and answers namespaces)    *)
(*   src/src/embeddings.py  EmbeddingReranker (score blending, sorting)    *)
(*   src/src/retriever.py   SemanticScholarRetriever (search, embeddings)  *)
(*   src/src/synthesizer.py ClaudeSynthesizer.detect_contradictions        *)
(*   src/src/bot.py         EnhancedMedQueryBot.answer_question            *)
(*                                                                         *)
(* The specifications share the variables:                                 *)
(*   SpecCache   the ResultCache operations called directly                *)
(*   SpecRerank  rerank_papers applied to bounded inputs                   *)
(*   SpecDetect  contradiction detection on bounded lists of papers        *)
(*   SpecEmbed   get_embedding called directly on one retriever            *)
(*   Spec        answer_question runs and clear_cache on one bot           *)
(*   SpecCorrupt Spec, with cache files damaged between runs               *)
(*                                                                         *)
(* Representation.  Python strings that are only compared for equality     *)
(* (titles, queries, answers) are TLA+ strings.  Strings that are sorted   *)
(* or concatenated (question, paper_id) are sequences of code points, so   *)
(* "" is <<>> and "|" is <<124>>.  Floats are exact rationals scaled by    *)
(* 10000 (similarity by 100); floating-point rounding is not               *)
(* modelled.  md5 is modelled as a collision-free digest.                  *)
(***************************************************************************)
EXTENDS Integers, Sequences, FiniteSets, TLC

VARIABLES
    \* ---- EnhancedMedQueryBot / ResultCache (persistent) ----
    use_cache,          \* bot.use_cache: self.cache is a ResultCache iff TRUE
    dirs,               \* directories that exist under .cache
    papers_dir,         \* .cache/papers : cache key -> file content
    answers_dir,        \* .cache/answers: cache key -> file content
    \* ---- one answer_question invocation (locals of the method) ----
    pc,                 \* position in answer_question
    user_question, detect_contradictions, top_k_papers, use_cached,
    queries, qi,        \* generated queries and the loop index
    all_papers, seen_paper_ids,
    top_papers, paper_ids, contradictions,
    result,             \* the returned dict
    calls,              \* what this invocation did (external calls, cache I/O)
    \* ---- observation across invocations ----
    runs,               \* answer_question invocations started
    fetched_prev,       \* queries whose API fetch returned papers in an earlier run
    synth_prev,         \* <<question, top set, answer>> synthesized in earlier runs
    rerank_in,          \* the list handed to rerank_papers, in input order
    \* ---- direct ResultCache calls (SpecCache) ----
    last_op, n_ops, cached_before,
    \* ---- SemanticScholarRetriever (one process) ----
    embedding_model,    \* self.embedding_model is a loaded model iff TRUE
    hash_seed,          \* the hash randomization of the process (PYTHONHASHSEED)
    _embedding_cache,   \* self._embedding_cache: cache key -> vector
    embed_log,          \* what the get_embedding calls made so far returned
    n_embed             \* direct get_embedding calls made (SpecEmbed)

vars == <<use_cache, dirs, papers_dir, answers_dir, pc, user_question,
          detect_contradictions, top_k_papers, use_cached, queries, qi,
          all_papers, seen_paper_ids, top_papers, paper_ids, contradictions,
          result, calls, runs, fetched_prev, synth_prev, rerank_in,
          last_op, n_ops, cached_before,
          embedding_model, hash_seed, _embedding_cache, embed_log, n_embed>>

cacheVars == <<dirs, papers_dir, answers_dir>>
runVars == <<pc, user_question, detect_contradictions, top_k_papers, use_cached,
             queries, qi, all_papers, seen_paper_ids, top_papers, paper_ids,
             contradictions, result, calls>>
histVars == <<runs, fetched_prev, synth_prev>>
directVars == <<last_op, n_ops, cached_before>>
embedVars == <<embedding_model, hash_seed, _embedding_cache, embed_log, n_embed>>

(***************************************************************************)
(* Bounds of the model.                                                    *)
(***************************************************************************)
MaxCacheOps == 4      \* direct ResultCache writes/clears in SpecCache
MaxRerankLen == 3     \* length of the list given to rerank_papers
MaxTopK == 2          \* largest top_k given to rerank_papers directly
MaxQueries == 2       \* queries generated per run (the code keeps at most 3)
MaxRuns == 2          \* answer_question invocations

(***************************************************************************)
(* Generic helpers.                                                        *)
(***************************************************************************)
Min(a, b) == IF a <= b THEN a ELSE b

SeqsUpTo(S, n) == UNION {[1..k -> S] : k \in 0..n}

InjSeqsUpTo(S, n) == {s \in SeqsUpTo(S, n) : \A i, j \in 1..Len(s) : i # j => s[i] # s[j]}

Range(s) == {s[i] : i \in 1..Len(s)}

Count(s, x) == Cardinality({i \in 1..Len(s) : s[i] = x})

IsPermutation(s, t) ==
    /\ Len(s) = Len(t)
    /\ \A x \in Range(s) \cup Range(t) : Count(s, x) = Count(t, x)

\* Python's Optional: None, or a value.
None == [some |-> FALSE, v |-> <<>>]
Some(x) == [some |-> TRUE, v |-> x]

(***************************************************************************)
(* models.py: Paper                                                        *)
(***************************************************************************)
\* An embedding: its components, and whether one of them is NaN.
Vec(v) == [nan |-> FALSE, v |-> v]
NaNVec == [nan |-> TRUE, v |-> <<0, 0>>]
NoEmbedding == [nan |-> FALSE, v |-> <<>>]      \* embedding = None
NoTldr == "None"         \* tldr = None

Paper(title, abstract, year, authors, citation_count, url, paper_id, tldr) ==
    [title |-> title, abstract |-> abstract, year |-> year, authors |-> authors,
     citation_count |-> citation_count, url |-> url, paper_id |-> paper_id,
     tldr |-> tldr, embedding |-> NoEmbedding, relevance_score |-> 0]

PaperFields == {"title", "abstract", "year", "authors", "citation_count", "url",
                "paper_id", "tldr", "embedding", "relevance_score"}

\* Paper(**paper_dict): the dataclass constructor applied to a cached record;
\* a field the record lacks takes the dataclass default.
PaperFromDict(d) ==
    [title |-> d.title, abstract |-> d.abstract, year |-> d.year,
     authors |-> d.authors, citation_count |-> d.citation_count, url |-> d.url,
     paper_id |-> d.paper_id, tldr |-> d.tldr,
     embedding |-> NoEmbedding, relevance_score |-> d.relevance_score]

(***************************************************************************)
(* cache.py: ResultCache                                                   *)
(***************************************************************************)
\* __init__: cache_dir, papers_dir and answers_dir are created (exist_ok).
ResultCache_init == {"cache", "papers", "answers"}

\* _get_cache_key: hashlib.md5(text).hexdigest(), a digest taken collision-free.
_get_cache_key(text) == <<"md5", text>>

\* The record cache_papers builds for one paper (embedding is not stored).
paper_dict_mut(paper) ==
    [title |-> paper.title, abstract |-> paper.abstract, year |-> paper.citation_count,
     authors |-> paper.authors, citation_count |-> paper.citation_count,
     url |-> paper.url, tldr |-> paper.tldr,
     relevance_score |-> paper.relevance_score, paper_id |-> paper.paper_id]
paper_dict(paper) ==
    [title |-> paper.title, abstract |-> paper.abstract, year |-> paper.year,
     authors |-> paper.authors, citation_count |-> paper.citation_count,
     url |-> paper.url, tldr |-> paper.tldr,
     relevance_score |-> paper.relevance_score, paper_id |-> paper.paper_id]

\* Contents of a cache file that cache_papers did not write: text that is
\* not JSON, a document without the 'papers' key, and a document whose
\* paper records lack paper_id.
NotJson == [not_json |-> TRUE]
NoPayload(query) == [query |-> query]
NoPaperId(query) == [query |-> query, papers |-> <<[title |-> "TA", abstract |-> "abstract A"]>>]

\* json.load(f) raises on this content.
json_load_raises(content) == "not_json" \in DOMAIN content

\* get_cached_papers on a given papers namespace: data['papers'], or None
\* when the file is missing or when reading it raised (lines 39-41).
get_cached_papers_in(exists, files, query) ==
    LET cache_file == _get_cache_key(query) IN
    IF exists /\ cache_file \in DOMAIN files
    THEN IF json_load_raises(files[cache_file]) THEN None
         ELSE IF "papers" \notin DOMAIN files[cache_file] THEN None
         ELSE Some(files[cache_file].papers)
    ELSE None

get_cached_papers(query) == get_cached_papers_in("papers" \in dirs, papers_dir, query)

\* cache_papers: the papers namespace after the call; a failing open() (the
\* directory is missing) is caught and leaves the namespace as it was.
cache_papers(query, papers) ==
    LET cache_file == _get_cache_key(query)
        papers_data == [i \in 1..Len(papers) |-> paper_dict(papers[i])]
    IN  IF "papers" \in dirs
        THEN (cache_file :> [query |-> query, papers |-> papers_data]) @@ papers_dir
        ELSE papers_dir

\* str comparison of Python: lexicographic on code points.
RECURSIVE StrLess(_, _)
StrLess(s, t) ==
    IF t = <<>> THEN FALSE
    ELSE IF s = <<>> THEN TRUE
    ELSE IF Head(s) # Head(t) THEN Head(s) < Head(t)
    ELSE StrLess(Tail(s), Tail(t))

RECURSIVE InsertSorted(_, _)
InsertSorted(x, s) ==
    IF s = <<>> THEN <<x>>
    ELSE IF StrLess(x, Head(s)) THEN <<x>> \o s
    ELSE <<Head(s)>> \o InsertSorted(x, Tail(s))

\* sorted(paper_ids)
sorted_mut(ids) == ids
RECURSIVE sorted(_)
sorted(ids) == IF ids = <<>> THEN <<>> ELSE InsertSorted(Head(ids), sorted(Tail(ids)))

\* '|'.join(parts)
RECURSIVE join(_)
join(parts) ==
    IF parts = <<>> THEN <<>>
    ELSE IF Len(parts) = 1 THEN parts[1]
    ELSE parts[1] \o <<124>> \o join(Tail(parts))

\* f"{question}|{'|'.join(sorted(paper_ids))}"
cache_input(question, ids) == question \o <<124>> \o join(sorted(ids))

\* get_cached_answer: data['answer'] or None.
get_cached_answer(question, ids) ==
    LET cache_file == _get_cache_key(cache_input(question, ids)) IN
    IF "answers" \in dirs /\ cache_file \in DOMAIN answers_dir
    THEN Some(answers_dir[cache_file].answer)
    ELSE None

\* cache_answer: the answers namespace after the call.
cache_answer(question, ids, answer) ==
    LET cache_file == _get_cache_key(cache_input(question, ids)) IN
    IF "answers" \in dirs
    THEN (cache_file :> [question |-> question, paper_ids |-> ids, answer |-> answer])
         @@ answers_dir
    ELSE answers_dir

EmptyDir == <<>>

\* clear_cache: shutil.rmtree(cache_dir), then __init__ again.
clear_cache_mut ==
    /\ dirs' = {}
    /\ papers_dir' = EmptyDir
    /\ answers_dir' = EmptyDir
clear_cache ==
    /\ dirs' = ResultCache_init
    /\ papers_dir' = EmptyDir
    /\ answers_dir' = EmptyDir

(***************************************************************************)
(* State of a bot between answer_question invocations.                     *)
(***************************************************************************)
NoResult == [no_result |-> TRUE]
NoCalls == [api |-> {}, api_found |-> {}, hits |-> {}, returned |-> {}, shared |-> FALSE,
            sleeps |-> 0, search |-> None, api_failed |-> {}, llm_raised |-> FALSE,
            malformed |-> {}, wrote |-> {}, idless |-> {}, llm_detect |-> 0, detect_prompt |-> None,
            rerank |-> 0, answer_reads |-> 0, answer_writes |-> 0,
            consult |-> None, detect |-> 0, synth |-> 0]
NoOp == [op |-> "none", query |-> "", papers |-> <<>>, question |-> <<>>,
         paper_ids |-> <<>>, answer |-> ""]

IdleRun ==
    /\ pc = "idle"
    /\ user_question = <<>>
    /\ detect_contradictions = FALSE
    /\ top_k_papers = 0
    /\ use_cached = FALSE
    /\ queries = <<>>
    /\ qi = 0
    /\ all_papers = <<>>
    /\ seen_paper_ids = {}
    /\ top_papers = <<>>
    /\ paper_ids = <<>>
    /\ contradictions = None
    /\ result = NoResult
    /\ calls = NoCalls
    /\ rerank_in = <<>>

NoHistory ==
    /\ runs = 0
    /\ fetched_prev = {}
    /\ synth_prev = {}

NoDirect ==
    /\ last_op = NoOp
    /\ n_ops = 0
    /\ cached_before = [papers |-> {}, answers |-> {}]

NoEmbedLog == [returned |-> <<>>, last |-> None]

\* SemanticScholarRetriever() with the sentence-transformers model loaded.
FreshRetriever ==
    /\ embedding_model = TRUE
    /\ hash_seed = 0
    /\ _embedding_cache = <<>>
    /\ embed_log = NoEmbedLog
    /\ n_embed = 0

\* ResultCache() on a machine with no .cache directory yet.
FreshCache ==
    /\ dirs = ResultCache_init
    /\ papers_dir = EmptyDir
    /\ answers_dir = EmptyDir

(***************************************************************************)
(* SpecCache: cache_papers, cache_answer and clear_cache called directly   *)
(* on one ResultCache; get_cached_papers and get_cached_answer are reads   *)
(* of the state.                                                           *)
(***************************************************************************)
ID_A == <<97>>
ID_B == <<98>>
ID_NONE == <<>>

\* A paper as it is after reranking (embedding and score assigned) and a
\* paper as the search client builds it.
RankedPaper ==
    [Paper("T1", "abstract one", 2021, <<"Ann", "Bob">>, 10, "u1", ID_A, "short")
        EXCEPT !.embedding = Vec(<<3, 4>>), !.relevance_score = 6400]
PlainPaper == Paper("T2", "abstract two", 2020, <<>>, 0, "u2", ID_NONE, NoTldr)

DirectQueries == {"q1", "q2"}
DirectPaperLists ==
    {<<>>, <<RankedPaper>>, <<PlainPaper>>, <<RankedPaper, PlainPaper>>,
     <<PlainPaper, RankedPaper>>}
DirectQuestions == {<<81>>}
DirectIdLists == {<<>>, <<ID_A>>, <<ID_A, ID_B>>, <<ID_B, ID_A>>, <<ID_B, ID_NONE, ID_A>>}
DirectAnswers == {"A1", "A2"}

InitCache ==
    /\ use_cache = TRUE
    /\ FreshCache
    /\ IdleRun
    /\ NoHistory
    /\ NoDirect
    /\ FreshRetriever

DirectCachePapers(q, P) ==
    /\ n_ops < MaxCacheOps
    /\ papers_dir' = cache_papers(q, P)
    /\ last_op' = [NoOp EXCEPT !.op = "cache_papers", !.query = q, !.papers = P]
    /\ n_ops' = n_ops + 1
    /\ UNCHANGED <<use_cache, dirs, answers_dir, cached_before, runVars, histVars, rerank_in, embedVars>>

DirectCacheAnswer(question, ids, answer) ==
    /\ n_ops < MaxCacheOps
    /\ answers_dir' = cache_answer(question, ids, answer)
    /\ last_op' = [NoOp EXCEPT !.op = "cache_answer", !.question = question,
                               !.paper_ids = ids, !.answer = answer]
    /\ n_ops' = n_ops + 1
    /\ UNCHANGED <<use_cache, dirs, papers_dir, cached_before, runVars, histVars, rerank_in, embedVars>>

DirectClearCache ==
    /\ n_ops < MaxCacheOps
    /\ clear_cache
    /\ cached_before' =
           [papers |-> {q \in DirectQueries : get_cached_papers(q).some},
            answers |-> {k \in DirectQuestions \X DirectIdLists :
                             get_cached_answer(k[1], k[2]).some}]
    /\ last_op' = [NoOp EXCEPT !.op = "clear_cache"]
    /\ n_ops' = n_ops + 1
    /\ UNCHANGED <<use_cache, runVars, histVars, rerank_in, embedVars>>

NextCache ==
    \/ \E q \in DirectQueries, P \in DirectPaperLists : DirectCachePapers(q, P)
    \/ \E question \in DirectQuestions, ids \in DirectIdLists, answer \in DirectAnswers :
           DirectCacheAnswer(question, ids, answer)
    \/ DirectClearCache

SpecCache == InitCache /\ [][NextCache]_vars

PermutationsOf(ids) == {s \in [1..Len(ids) -> Range(ids)] : IsPermutation(s, ids)}

\* C4 (as stated): after cache_papers(q, P), get_cached_papers(q) gives back a
\* list of the same length and order whose records, rebuilt as Papers, equal
\* the papers of P in every field.
C4_RoundTripAllFields ==
    last_op.op = "cache_papers" =>
        LET r == get_cached_papers(last_op.query)
            P == last_op.papers
        IN  /\ r.some
            /\ Len(r.v) = Len(P)
            /\ \A i \in 1..Len(P) : PaperFromDict(r.v[i]) = P[i]

\* C4 (amended): after cache_papers(q, P), get_cached_papers(q) gives back a
\* list of the same length and order whose records equal the papers of P in
\* every field except embedding, which is not stored: a Paper rebuilt from a
\* record has embedding None.
C4_RoundTripExceptEmbedding ==
    last_op.op = "cache_papers" =>
        LET r == get_cached_papers(last_op.query)
            P == last_op.papers
        IN  /\ r.some
            /\ Len(r.v) = Len(P)
            /\ \A i \in 1..Len(P) :
                   /\ DOMAIN r.v[i] = PaperFields \ {"embedding"}
                   /\ \A f \in DOMAIN r.v[i] : r.v[i][f] = P[i][f]
                   /\ PaperFromDict(r.v[i]) = [P[i] EXCEPT !.embedding = NoEmbedding]

C4_Witness ==
    /\ last_op.op = "cache_papers"
    /\ Len(last_op.papers) = 2
    /\ last_op.papers[1].embedding # NoEmbedding
    /\ last_op.papers[2].paper_id = ID_NONE

\* C5: after cache_answer(question, ids, answer), get_cached_answer(question,
\* ids2) returns answer for every permutation ids2 of ids.
C5_AnswerKeyOrderIndependent ==
    last_op.op = "cache_answer" =>
        \A ids2 \in PermutationsOf(last_op.paper_ids) :
            get_cached_answer(last_op.question, ids2) = Some(last_op.answer)

C5_Witness ==
    /\ last_op.op = "cache_answer"
    /\ Len(last_op.paper_ids) = 3
    /\ StrLess(last_op.paper_ids[2], last_op.paper_ids[1])
    /\ Cardinality(PermutationsOf(last_op.paper_ids)) = 6

\* A clear_cache has removed at least one entry.
ClearedSomething == cached_before.papers # {} \/ cached_before.answers # {}

\* C6: right after clear_cache every read of either namespace returns None,
\* whatever was cached before, and the first cache_papers / cache_answer
\* after a clear is read back by the matching get.
C6_ClearEmptiesAndReusable ==
    /\ last_op.op = "clear_cache" =>
           /\ \A q \in DirectQueries : get_cached_papers(q) = None
           /\ \A question \in DirectQuestions, ids \in DirectIdLists :
                  get_cached_answer(question, ids) = None
    /\ (last_op.op = "cache_papers" /\ ClearedSomething) =>
           /\ get_cached_papers(last_op.query).some
           /\ Len(get_cached_papers(last_op.query).v) = Len(last_op.papers)
    /\ (last_op.op = "cache_answer" /\ ClearedSomething) =>
           get_cached_answer(last_op.question, last_op.paper_ids) = Some(last_op.answer)

C6_Witness ==
    /\ last_op.op = "cache_answer"
    /\ cached_before.papers # {}
    /\ (<<last_op.question, last_op.paper_ids>>) \in cached_before.answers
    /\ get_cached_answer(last_op.question, last_op.paper_ids) = Some(last_op.answer)

(***************************************************************************)
(* embeddings.py: EmbeddingReranker                                        *)
(* similarity is scaled by 100, relevance_score by 10000.                  *)
(***************************************************************************)
WeightSimilarity == 60     \* 0.6,  times 100
WeightCitation == 25       \* 0.25, times 100
WeightRecency == 15        \* 0.15, times 100
CitationSaturation == 100  \* citation_count / 100
BaseYear == 2020
YearSpan == 10

Dot(v1, v2) ==
    LET RECURSIVE Sum(_)
        Sum(i) == IF i = 0 THEN 0 ELSE v1[i] * v2[i] + Sum(i - 1)
    IN  Sum(Len(v1))

\* np.linalg.norm on vectors whose norm is an integer.
Norm(v) == CHOOSE n \in 0..Dot(v, v) : n * n = Dot(v, v)

\* _cosine_similarity, times 100.
_cosine_similarity(vec1, vec2) ==
    IF vec1.nan \/ vec2.nan THEN 0
    ELSE LET dot_product == Dot(vec1.v, vec2.v)
             norm_product == Norm(vec1.v) * Norm(vec2.v)
         IN  IF norm_product = 0 THEN 0
             ELSE (100 * dot_product) \div norm_product

\* min(paper.citation_count / 100, 1.0), times 100.
citation_score(paper) == Min(paper.citation_count, CitationSaturation)

\* (paper.year - 2020) / 10 if paper.year >= 2020 else 0, times 100.
recency_score(paper) ==
    IF paper.year >= BaseYear THEN ((paper.year - BaseYear) * 100) \div YearSpan ELSE 0

relevance_score(similarity, paper) ==
    WeightSimilarity * similarity
        + WeightCitation * citation_score(paper)
        + WeightRecency * recency_score(paper)

\* papers.sort(key=lambda p: p.relevance_score, reverse=True): a stable sort,
\* papers of equal score keep their order.
RECURSIVE InsertDescMut(_, _)
InsertDescMut(x, s) ==
    IF s = <<>> THEN <<x>>
    ELSE IF s[1].relevance_score <= x.relevance_score THEN <<x>> \o s
    ELSE <<s[1]>> \o InsertDescMut(x, Tail(s))
RECURSIVE InsertDesc(_, _)
InsertDesc(x, s) ==
    IF s = <<>> THEN <<x>>
    ELSE IF s[1].relevance_score < x.relevance_score THEN <<x>> \o s
    ELSE <<s[1]>> \o InsertDesc(x, Tail(s))

RECURSIVE sort_reverse_mut(_)
sort_reverse_mut(papers) ==
    IF papers = <<>> THEN <<>>
    ELSE InsertDescMut(papers[Len(papers)],
                       sort_reverse_mut(SubSeq(papers, 1, Len(papers) - 1)))
RECURSIVE sort_reverse(_)
sort_reverse(papers) ==
    IF papers = <<>> THEN <<>>
    ELSE InsertDesc(papers[Len(papers)], sort_reverse(SubSeq(papers, 1, Len(papers) - 1)))

\* papers[:top_k]
slice_to(papers, top_k) ==
    IF top_k >= 0 THEN SubSeq(papers, 1, Min(top_k, Len(papers)))
    ELSE SubSeq(papers, 1, Len(papers) + top_k)

\* rerank_papers, given what get_embedding returned for the query and for
\* each paper text: the list after the in-place scoring and sort.
scored_and_sorted(query_embedding, paper_embeddings, papers) ==
    sort_reverse([i \in 1..Len(papers) |->
        [papers[i] EXCEPT
            !.embedding = paper_embeddings[i],
            !.relevance_score =
                relevance_score(_cosine_similarity(query_embedding, paper_embeddings[i]),
                                papers[i])]])

\* rerank_papers: the returned list.
rerank_papers(query_embedding, paper_embeddings, papers, top_k) ==
    IF papers = <<>> THEN <<>>
    ELSE slice_to(scored_and_sorted(query_embedding, paper_embeddings, papers), top_k)

(***************************************************************************)
(* SpecRerank: rerank_papers applied once to each bounded input.           *)
(***************************************************************************)
QueryVecs == {Vec(<<3, 4>>), Vec(<<0, 0>>), Vec(<<-3, -4>>), NaNVec}
PaperVecs == {Vec(<<3, 4>>), Vec(<<4, 3>>), Vec(<<0, 0>>)}

RerankPool ==
    {Paper("T1", "abstract one", 2020, <<"Ann">>, 0, "u1", ID_A, NoTldr),
     Paper("T2", "abstract two", 2020, <<"Bob">>, 0, "u2", ID_B, NoTldr),
     Paper("T3", "abstract three", 2031, <<>>, 250, "u3", ID_NONE, "short"),
     Paper("T4", "abstract four", 2019, <<>>, 40, "u4", ID_NONE, NoTldr)}

InitRerank ==
    /\ use_cache = FALSE
    /\ FreshCache
    /\ NoHistory
    /\ NoDirect
    /\ FreshRetriever
    /\ pc = "rerank_call"
    /\ user_question = <<81>>
    /\ detect_contradictions = FALSE
    /\ top_k_papers \in 0..MaxTopK
    /\ use_cached = FALSE
    /\ queries = <<>>
    /\ qi = 0
    /\ all_papers \in InjSeqsUpTo(RerankPool, MaxRerankLen)
    /\ seen_paper_ids = {}
    /\ top_papers = <<>>
    /\ paper_ids = <<>>
    /\ contradictions = None
    /\ result = NoResult
    /\ calls = NoCalls
    /\ rerank_in = <<>>

RerankCall ==
    /\ pc = "rerank_call"
    /\ \E query_embedding \in QueryVecs, paper_embeddings \in [1..Len(all_papers) -> PaperVecs] :
        /\ top_papers' = rerank_papers(query_embedding, paper_embeddings, all_papers,
                                       top_k_papers)
        /\ all_papers' = IF all_papers = <<>> THEN <<>>
                         ELSE scored_and_sorted(query_embedding, paper_embeddings, all_papers)
    /\ rerank_in' = all_papers
    /\ pc' = "rerank_done"
    /\ calls' = [calls EXCEPT !.rerank = @ + 1]
    /\ UNCHANGED <<use_cache, cacheVars, user_question, detect_contradictions, top_k_papers,
                   use_cached, queries, qi, seen_paper_ids, paper_ids, contradictions,
                   result, histVars, directVars, embedVars>>

NextRerank == RerankCall

SpecRerank == InitRerank /\ [][NextRerank]_vars

\* Position of the paper titled t in the list s (titles of a list are distinct here).
PosOf(s, t) == CHOOSE i \in 1..Len(s) : s[i].title = t

\* C7: rerank_papers returns min(top_k, len(papers)) of the input papers,
\* in non-increasing relevance_score, papers of equal score in their input
\* order; an empty input gives an empty list.
C7_RerankLengthOrderStable ==
    pc = "rerank_done" =>
        /\ Len(top_papers) = Min(top_k_papers, Len(rerank_in))
        /\ rerank_in = <<>> => top_papers = <<>>
        /\ \A i \in 1..Len(top_papers) :
               \E k \in 1..Len(rerank_in) : rerank_in[k].title = top_papers[i].title
        /\ \A i, j \in 1..Len(top_papers) :
               i < j =>
                   /\ top_papers[i].relevance_score >= top_papers[j].relevance_score
                   /\ top_papers[i].relevance_score = top_papers[j].relevance_score
                          => PosOf(rerank_in, top_papers[i].title)
                                 < PosOf(rerank_in, top_papers[j].title)

\* rerank_papers has cut a list with a tie at the top.
C7_Witness ==
    /\ pc = "rerank_done"
    /\ Len(rerank_in) = 3
    /\ top_k_papers = 2
    /\ Len(top_papers) = 2
    /\ top_papers[1].relevance_score = top_papers[2].relevance_score
    /\ top_papers[1].title = "T2"
    /\ top_papers[2].title = "T1"
    /\ all_papers[3].relevance_score < top_papers[2].relevance_score

\* C8: for every scored paper with citation_count >= 0 and year >= 2020 the
\* citation term is at most 0.25, the recency term at most 0.15, and the
\* score lies in [-0.6, 1.0] (terms and score times 10000).
C8_ScoreBounded ==
    pc = "rerank_done" =>
        \A i \in 1..Len(all_papers) :
            LET paper == all_papers[i] IN
            (paper.citation_count >= 0 /\ paper.year >= 2020) =>
                /\ WeightCitation * citation_score(paper) <= 2500
                /\ WeightRecency * recency_score(paper) <= 1500
                /\ paper.relevance_score >= -6000
                /\ paper.relevance_score <= 10000

(***************************************************************************)
(* bot.py: EnhancedMedQueryBot.answer_question                             *)
(***************************************************************************)
\* Python truthiness of a list (or a str held as code points), and of a str.
Truthy(x) == x # <<>>
TruthyStr(x) == x # ""

\* Lines 45-49: the papers of a cache entry are added unless their paper_id
\* was seen; acc is [all_papers, seen_paper_ids, raised].  paper_dict['paper_id']
\* raises KeyError on a record without that key.
merge_one_cached_mut(acc, paper_dict_) ==
    [acc EXCEPT !.all_papers = Append(@, PaperFromDict(paper_dict_)),
                !.seen_paper_ids = @ \cup {paper_dict_.paper_id}]
merge_one_cached(acc, paper_dict_) ==
    IF "paper_id" \notin DOMAIN paper_dict_
    THEN [acc EXCEPT !.raised = TRUE]
    ELSE IF paper_dict_.paper_id \notin acc.seen_paper_ids
    THEN [acc EXCEPT !.all_papers = Append(@, PaperFromDict(paper_dict_)),
                     !.seen_paper_ids = @ \cup {paper_dict_.paper_id}]
    ELSE acc

RECURSIVE merge_cached(_, _)
merge_cached(acc, cached_papers_) ==
    IF cached_papers_ = <<>> \/ acc.raised THEN acc
    ELSE merge_cached(merge_one_cached(acc, Head(cached_papers_)), Tail(cached_papers_))

\* Lines 57-65: one fetched paper; acc is [all_papers, seen_paper_ids, new_papers].
deduplicate_one(acc, paper) ==
    IF Truthy(paper.paper_id) /\ paper.paper_id \notin acc.seen_paper_ids
    THEN [all_papers |-> Append(acc.all_papers, paper),
          seen_paper_ids |-> acc.seen_paper_ids \cup {paper.paper_id},
          new_papers |-> Append(acc.new_papers, paper)]
    ELSE IF ~Truthy(paper.paper_id)
            /\ paper.title \notin {acc.all_papers[i].title : i \in 1..Len(acc.all_papers)}
    THEN [all_papers |-> Append(acc.all_papers, paper),
          seen_paper_ids |-> acc.seen_paper_ids,
          new_papers |-> Append(acc.new_papers, paper)]
    ELSE acc

RECURSIVE deduplicate(_, _)
deduplicate(acc, papers) ==
    IF papers = <<>> THEN acc
    ELSE deduplicate(deduplicate_one(acc, Head(papers)), Tail(papers))

\* Line 75: "if not all_papers".
no_papers_mut(papers) == FALSE
no_papers(papers) == ~Truthy(papers)

NoPapersAnswer == "No papers found. Try rephrasing your question or broadening the scope."

\* Lines 76-84.
no_papers_result ==
    [question |-> user_question, queries_used |-> queries, papers_analyzed |-> 0,
     papers_used |-> 0, papers |-> <<>>, contradictions |-> None,
     answer |-> NoPapersAnswer]

\* Line 92: [p.paper_id for p in top_papers if p.paper_id]
RECURSIVE ids_of(_)
ids_of(papers) ==
    IF papers = <<>> THEN <<>>
    ELSE IF Truthy(papers[1].paper_id) THEN <<papers[1].paper_id>> \o ids_of(Tail(papers))
    ELSE ids_of(Tail(papers))

\* Line 94: the answer cache is consulted.
consults_answer_cache == use_cached /\ use_cache /\ Truthy(paper_ids)

\* Lines 95-96: the consult and what it returned ("if cached_answer").
cached_answer == IF consults_answer_cache THEN get_cached_answer(user_question, paper_ids)
                 ELSE None
answer_hit == cached_answer.some /\ TruthyStr(cached_answer.v)

\* Lines 98-107.
cached_result_mut ==
    [question |-> user_question, queries_used |-> queries,
     papers_analyzed |-> Len(all_papers), papers_used |-> Len(top_papers),
     papers |-> top_papers, contradictions |-> None, answer |-> cached_answer.v,
     from_cache |-> FALSE]
cached_result ==
    [question |-> user_question, queries_used |-> queries,
     papers_analyzed |-> Len(all_papers), papers_used |-> Len(top_papers),
     papers |-> top_papers, contradictions |-> None, answer |-> cached_answer.v,
     from_cache |-> TRUE]

\* Lines 125-134.
fresh_result(answer) ==
    [question |-> user_question, queries_used |-> queries,
     papers_analyzed |-> Len(all_papers), papers_used |-> Len(top_papers),
     papers |-> top_papers, contradictions |-> contradictions, answer |-> answer,
     from_cache |-> FALSE]

(***************************************************************************)
(* Spec: answer_question invocations and clear_cache on one bot.  The      *)
(* search API, the embedding model and the LLM are the environment.        *)
(***************************************************************************)
QuestionPool == {<<81>>}
QueryPool == {"q1", "q2"}
\* The text synthesize_findings returns: the LLM words every answer anew, so
\* the answers of different invocations differ.
AnswerPool(run) == {CASE run = 1 -> "A1" [] run = 2 -> "A2" [] run = 3 -> "A3" [] OTHER -> "A4"}
AnalysisPool == {"No major contradictions detected."}

(***************************************************************************)
(* retriever.py: SemanticScholarRetriever.get_embedding.  A text is its    *)
(* first 1000 characters, held as the lower-case words they split into,    *)
(* and the rest; vectors have EmbeddingDim components, scaled by 100.      *)
(***************************************************************************)
EmbeddingDim == 2     \* stands for the 384 components of a vector

Text(head, tail) == [head |-> head, tail |-> tail]

\* text[:1000]
truncate(text) == text.head

\* embedding_model.encode(truncated_text): the vector the model gives.
encode(words) == IF words # <<>> /\ words[1] = "b" THEN Vec(<<4, 3>>) ELSE Vec(<<3, 4>>)

\* hash(word) % 100 in a process with the given hash randomization.
hash_mod(seed, word) ==
    CASE word = "a" -> IF seed = 0 THEN 30 ELSE 40
      [] word = "b" -> IF seed = 0 THEN 40 ELSE 30
      [] OTHER -> 0

\* _simple_embedding: one component per word, the vector L2-normalized
\* unless its norm is zero.
_simple_embedding(seed, words) ==
    LET vec == [i \in 1..EmbeddingDim |->
                   IF i <= Len(words) THEN hash_mod(seed, words[i]) ELSE 0]
        norm == Norm(vec)
    IN  Vec(IF norm > 0 THEN [i \in 1..EmbeddingDim |-> (vec[i] * 100) \div norm] ELSE vec)

\* get_embedding on a given embedding cache: the returned vector, the cache
\* after the call, and whether the model and the fallback were invoked.
\* encode_raises tells whether embedding_model.encode raises in this call.
get_embedding_in(cache, text, encode_raises) ==
    LET cache_key == _get_cache_key(text)
        truncated_text == truncate(text)
    IN  IF cache_key \in DOMAIN cache
        THEN [value |-> cache[cache_key], cache |-> cache,
              encoded |-> FALSE, simple |-> FALSE]
        ELSE IF embedding_model
        THEN IF ~encode_raises
             THEN [value |-> encode(truncated_text),
                   cache |-> (cache_key :> encode(truncated_text)) @@ cache,
                   encoded |-> TRUE, simple |-> FALSE]
             ELSE [value |-> _simple_embedding(hash_seed, truncated_text), cache |-> cache,
                   encoded |-> TRUE, simple |-> TRUE]
        ELSE [value |-> _simple_embedding(hash_seed, truncated_text), cache |-> cache,
              encoded |-> FALSE, simple |-> TRUE]

get_embedding(text, encode_raises) == get_embedding_in(_embedding_cache, text, encode_raises)

\* Lines 36-46 of embeddings.py: get_embedding for each text in turn, in a
\* process whose model does not raise; acc is [cache, values].
RECURSIVE embed_all(_, _)
embed_all(acc, texts) ==
    IF texts = <<>> THEN acc
    ELSE LET r == get_embedding_in(acc.cache, Head(texts), FALSE)
         IN  embed_all([cache |-> r.cache, values |-> Append(acc.values, r.value)],
                       Tail(texts))

\* The question as a text (the pool has one question).
text_of_question(question) == Text(<<"question">>, "")

\* Line 40 of embeddings.py: f"{paper.title} {paper.abstract[:500]}".
paper_text(paper) == Text(<<paper.title, paper.abstract>>, "")

PaperPool ==
    {Paper("TA", "abstract A", 2021, <<"Ann">>, 10, "uA", ID_A, NoTldr),
     Paper("TE", "abstract E", 2022, <<>>, 0, "uE", ID_NONE, NoTldr)}

\* A second paper without paper_id, under another title.
OtherIdlessPaper == Paper("TF", "abstract F", 2020, <<"Fay">>, 3, "uF", ID_NONE, NoTldr)

\* What one search_papers call can return when the request succeeds: nothing,
\* one paper, two papers in either order, the same paper twice, or the two
\* papers without paper_id.
SearchResults ==
    SeqsUpTo(PaperPool, 2)
        \cup {<<CHOOSE p \in PaperPool : p.paper_id = ID_NONE, OtherIdlessPaper>>}

(***************************************************************************)
(* retriever.py: SemanticScholarRetriever.search_papers.  A response of    *)
(* the search API is: whether requests.get raised a RequestException, the  *)
(* status code, and the records of the body; a record is the Paper it      *)
(* would be built into and the length of its abstract.                     *)
(***************************************************************************)
StatusOK == 200
MinAbstractLen == 100

Item(paper, abstract_len) == [paper |-> paper, abstract_len |-> abstract_len]

OkResponse(data) == [raises |-> FALSE, status_code |-> StatusOK, data |-> data]
StatusError(data) == [raises |-> FALSE, status_code |-> 429, data |-> data]
NetworkError == [raises |-> TRUE, status_code |-> 0, data |-> <<>>]

\* Lines 58-67: the records with an abstract of more than 100 characters.
RECURSIVE with_abstract(_)
with_abstract(data) ==
    IF data = <<>> THEN <<>>
    ELSE IF data[1].abstract_len > MinAbstractLen
         THEN <<data[1].paper>> \o with_abstract(Tail(data))
         ELSE with_abstract(Tail(data))

\* The request did not give a usable response (lines 48-50 and 71-73).
search_failed(response) == response.raises \/ response.status_code # StatusOK

\* search_papers: the returned list.
search_papers_mut(response) == with_abstract(response.data)
search_papers(response) ==
    IF response.raises THEN <<>>
    ELSE IF response.status_code # StatusOK THEN <<>>
    ELSE with_abstract(response.data)

ShortPaper == Paper("TS", "abstract S", 2023, <<>>, 5, "uS", <<115>>, NoTldr)

\* The responses of the search API: every successful result (its records
\* have long abstracts), one with a record whose abstract is too short, an
\* error status with and without a body, and a network error.
Responses ==
    {OkResponse([i \in 1..Len(r) |-> Item(r[i], 150)]) : r \in SearchResults}
        \cup {OkResponse(<<Item(ShortPaper, 50)>>), OkResponse(<<Item(ShortPaper, 100)>>)}
        \cup {StatusError(<<>>), StatusError(<<Item(CHOOSE p \in PaperPool : p.paper_id = ID_A, 150)>>)}
        \cup {NetworkError}

\* top_k_papers of a call: fewer than, or as many as, the papers there are.
TopKPool == {1, 2}

Init ==
    /\ use_cache \in BOOLEAN
    /\ FreshCache
    /\ IdleRun
    /\ NoHistory
    /\ NoDirect
    /\ FreshRetriever

\* Line 28: generate_search_queries returns up to three queries.
GenerateQueries(question, dc, top_k, uc, qs) ==
    /\ pc = "idle"
    /\ runs < MaxRuns
    /\ runs' = runs + 1
    /\ user_question' = question
    /\ detect_contradictions' = dc
    /\ top_k_papers' = top_k
    /\ use_cached' = uc
    /\ queries' = qs
    /\ qi' = 1
    /\ all_papers' = <<>>
    /\ seen_paper_ids' = {}
    /\ pc' = "loop"
    /\ UNCHANGED <<use_cache, cacheVars, top_papers, paper_ids, contradictions, result,
                   calls, fetched_prev, synth_prev, rerank_in, directVars, embedVars>>

\* answer_question has no try/except: an exception raised by a call leaves
\* the method at once and reaches the caller.
raised_mut == "synth"
raised == "failed"

\* Line 28: the LLM call of generate_search_queries raises.
GenerateQueriesFails(question, dc, top_k, uc) ==
    /\ pc = "idle"
    /\ runs < MaxRuns
    /\ runs' = runs + 1
    /\ user_question' = question
    /\ detect_contradictions' = dc
    /\ top_k_papers' = top_k
    /\ use_cached' = uc
    /\ calls' = [calls EXCEPT !.llm_raised = TRUE]
    /\ pc' = raised
    /\ UNCHANGED <<use_cache, cacheVars, queries, qi, all_papers, seen_paper_ids, top_papers,
                   paper_ids, contradictions, result, fetched_prev, synth_prev,
                   rerank_in, directVars, embedVars>>

\* Lines 41-43: the papers cache is read and gives a non-empty list.
cached_papers == IF use_cached /\ use_cache THEN get_cached_papers(queries[qi]) ELSE None
papers_hit == cached_papers.some /\ Truthy(cached_papers.v)

\* The cache file of the query exists and is not a document that cache_papers writes.
malformed(query) ==
    LET cache_file == _get_cache_key(query) IN
    /\ "papers" \in dirs
    /\ cache_file \in DOMAIN papers_dir
    /\ \/ DOMAIN papers_dir[cache_file] # {"query", "papers"}
       \/ \E i \in 1..Len(papers_dir[cache_file].papers) :
              DOMAIN papers_dir[cache_file].papers[i] # PaperFields \ {"embedding"}

\* The record of the run after it has read the cache file of the query.
read_entry(c, query) ==
    IF use_cached /\ use_cache /\ malformed(query)
    THEN [c EXCEPT !.malformed = @ \cup {query}]
    ELSE c

\* Lines 45-49 applied to the cached papers of the current query.
merged == merge_cached([all_papers |-> all_papers, seen_paper_ids |-> seen_paper_ids,
                        raised |-> FALSE], cached_papers.v)

\* The record of the run after one query returned papers with these ids.
returns(c, ids) ==
    [c EXCEPT !.returned = @ \cup ids,
              !.shared = @ \/ (c.returned \cap ids) \ {ID_NONE} # {}]

\* The titles of the papers without paper_id in a list of papers or records.
idless_titles(papers) == {papers[i].title : i \in {k \in 1..Len(papers) : ~Truthy(papers[k].paper_id)}}

\* Lines 39-50: one iteration served from the papers cache.
LoopCacheHit ==
    /\ pc = "loop"
    /\ qi <= Len(queries)
    /\ papers_hit
    /\ ~merged.raised
    /\ all_papers' = merged.all_papers
    /\ seen_paper_ids' = merged.seen_paper_ids
    /\ calls' = [returns(calls, {cached_papers.v[i].paper_id : i \in 1..Len(cached_papers.v)})
                    EXCEPT !.hits = @ \cup {queries[qi]}, !.search = None,
                           !.idless = @ \cup idless_titles(cached_papers.v)]
    /\ qi' = qi + 1
    /\ UNCHANGED <<use_cache, cacheVars, pc, user_question, detect_contradictions,
                   top_k_papers, use_cached, queries, top_papers, paper_ids, contradictions,
                   result, histVars, rerank_in, directVars, embedVars>>

\* Line 71: time.sleep(1) ends every iteration that called search_papers,
\* whatever the search returned; n is the number of sleeps so far.
rate_limit_mut(n, papers) == IF Truthy(papers) THEN n + 1 ELSE n
rate_limit(n, papers) == n + 1

\* Lines 39-71: one iteration that calls search_papers; response is what the
\* search API answered.
LoopFetch(response) ==
    /\ pc = "loop"
    /\ qi <= Len(queries)
    /\ ~papers_hit
    /\ LET papers == search_papers(response)
           acc == deduplicate([all_papers |-> all_papers, seen_paper_ids |-> seen_paper_ids,
                               new_papers |-> <<>>], papers)
       IN  /\ all_papers' = acc.all_papers
           /\ seen_paper_ids' = acc.seen_paper_ids
           /\ papers_dir' = IF use_cache /\ Truthy(acc.new_papers)
                            THEN cache_papers(queries[qi], acc.new_papers)
                            ELSE papers_dir
           /\ calls' = [returns(read_entry(calls, queries[qi]),
                                 {papers[i].paper_id : i \in 1..Len(papers)})
                           EXCEPT !.wrote = IF use_cache /\ Truthy(acc.new_papers)
                                            THEN @ \cup {queries[qi]} ELSE @,
                                  !.api = @ \cup {queries[qi]},
                                  !.api_found = IF Truthy(papers) THEN @ \cup {queries[qi]} ELSE @,
                                  !.sleeps = rate_limit(@, papers),
                                  !.idless = @ \cup idless_titles(papers),
                                  !.search = Some([failed |-> search_failed(response),
                                                   papers |-> papers]),
                                  !.api_failed = IF search_failed(response)
                                                 THEN @ \cup {qi} ELSE @]
    /\ qi' = qi + 1
    /\ UNCHANGED <<use_cache, dirs, answers_dir, pc, user_question, detect_contradictions,
                   top_k_papers, use_cached, queries, top_papers, paper_ids, contradictions,
                   result, histVars, rerank_in, directVars, embedVars>>

\* Lines 39-46: the cached record has no paper_id and paper_dict['paper_id']
\* raises KeyError, which nothing catches.
LoopCacheRaises ==
    /\ pc = "loop"
    /\ qi <= Len(queries)
    /\ papers_hit
    /\ merged.raised
    /\ all_papers' = merged.all_papers
    /\ seen_paper_ids' = merged.seen_paper_ids
    /\ calls' = [read_entry(calls, queries[qi]) EXCEPT !.search = None]
    /\ pc' = raised
    /\ UNCHANGED <<use_cache, cacheVars, user_question, detect_contradictions,
                   top_k_papers, use_cached, queries, qi, top_papers, paper_ids,
                   contradictions, result, histVars, rerank_in, directVars, embedVars>>

\* Lines 75-84: nothing was found.
ReturnNoPapers ==
    /\ pc = "loop"
    /\ qi > Len(queries)
    /\ no_papers(all_papers)
    /\ result' = no_papers_result
    /\ calls' = [calls EXCEPT !.search = None]
    /\ pc' = "done"
    /\ UNCHANGED <<use_cache, cacheVars, user_question, detect_contradictions, top_k_papers,
                   use_cached, queries, qi, all_papers, seen_paper_ids, top_papers, paper_ids,
                   contradictions, histVars, rerank_in, directVars, embedVars>>

\* Lines 88-92: rerank_papers (which scores and sorts all_papers in place),
\* then the ids of the top papers.
Rerank ==
    /\ pc = "loop"
    /\ qi > Len(queries)
    /\ ~no_papers(all_papers)
    /\ LET embedded == embed_all([cache |-> _embedding_cache, values |-> <<>>],
                                  <<text_of_question(user_question)>>
                                      \o [i \in 1..Len(all_papers) |-> paper_text(all_papers[i])])
           query_embedding == Head(embedded.values)
           paper_embeddings == Tail(embedded.values)
           top == rerank_papers(query_embedding, paper_embeddings, all_papers, top_k_papers)
       IN  /\ _embedding_cache' = embedded.cache
           /\ top_papers' = top
            /\ paper_ids' = ids_of(top)
            /\ all_papers' = IF all_papers = <<>> THEN <<>>
                             ELSE scored_and_sorted(query_embedding, paper_embeddings,
                                                    all_papers)
    /\ rerank_in' = all_papers
    /\ calls' = [calls EXCEPT !.rerank = @ + 1, !.search = None]
    /\ pc' = "consult"
    /\ UNCHANGED <<use_cache, cacheVars, user_question, detect_contradictions, top_k_papers,
                   use_cached, queries, qi, seen_paper_ids, contradictions, result,
                   histVars, directVars, embedding_model, hash_seed, embed_log, n_embed>>

\* What the consult of lines 94-95 adds to the record of the run.
consulted(c) ==
    IF consults_answer_cache
    THEN [c EXCEPT !.answer_reads = @ + 1, !.consult = cached_answer]
    ELSE c

\* Lines 94-107: the answer cache has the answer.
AnswerCacheHit ==
    /\ pc = "consult"
    /\ answer_hit
    /\ result' = cached_result
    /\ calls' = consulted(calls)
    /\ pc' = "done"
    /\ UNCHANGED <<use_cache, cacheVars, user_question, detect_contradictions, top_k_papers,
                   use_cached, queries, qi, all_papers, seen_paper_ids, top_papers, paper_ids,
                   contradictions, histVars, rerank_in, directVars, embedVars>>

\* Line 111: contradiction detection is called.
detects == detect_contradictions /\ Len(top_papers) >= 2

(***************************************************************************)
(* synthesizer.py: ClaudeSynthesizer.detect_contradictions                 *)
(***************************************************************************)
MinPapersToCompare == 2
MaxPapersCompared == 6
NotEnoughPapers == "Not enough papers to detect contradictions."

\* papers[:6]
compared_mut(papers) == papers
compared(papers) == SubSeq(papers, 1, Min(MaxPapersCompared, Len(papers)))

\* Lines 34-37: one summary per compared paper, numbered from 1 (the
\* abstracts here are shorter than the 600 characters kept).
paper_summaries(papers) ==
    [i \in 1..Len(compared(papers)) |->
        [number |-> i, year |-> papers[i].year, citation_count |-> papers[i].citation_count,
         abstract |-> papers[i].abstract]]

\* The prompt sent to the LLM, or None when there is no call (lines 30-31).
detect_prompt(papers) ==
    IF Len(papers) < MinPapersToCompare THEN None ELSE Some(paper_summaries(papers))

\* detect_contradictions, given the text the LLM replies with.
detect_contradictions_of(papers, reply) ==
    IF Len(papers) < MinPapersToCompare
    THEN [analysis |-> NotEnoughPapers]
    ELSE [analysis |-> reply]

\* The record of the run after a detect_contradictions call on the papers.
detect_called(c, papers) ==
    [c EXCEPT !.llm_detect = IF detect_prompt(papers).some THEN @ + 1 ELSE @,
              !.detect_prompt = detect_prompt(papers)]

\* Lines 94-114: no cached answer; detect_contradictions is called and returns.
DetectContradictions(analysis) ==
    /\ pc = "consult"
    /\ ~answer_hit
    /\ detects
    /\ contradictions' = Some(detect_contradictions_of(top_papers, analysis))
    /\ calls' = [detect_called(consulted(calls), top_papers) EXCEPT !.detect = @ + 1]
    /\ pc' = "synth"
    /\ UNCHANGED <<use_cache, cacheVars, user_question, detect_contradictions, top_k_papers,
                   use_cached, queries, qi, all_papers, seen_paper_ids, top_papers, paper_ids,
                   result, histVars, rerank_in, directVars, embedVars>>

\* Lines 94-114: no cached answer; the LLM call of detect_contradictions raises.
DetectContradictionsFails ==
    /\ pc = "consult"
    /\ ~answer_hit
    /\ detects
    /\ calls' = [detect_called(consulted(calls), top_papers)
                    EXCEPT !.detect = @ + 1, !.llm_raised = TRUE]
    /\ pc' = raised
    /\ UNCHANGED <<use_cache, cacheVars, user_question, detect_contradictions, top_k_papers,
                   use_cached, queries, qi, all_papers, seen_paper_ids, top_papers, paper_ids,
                   contradictions, result, histVars, rerank_in, directVars, embedVars>>

\* Lines 94-111: no cached answer, and no contradiction detection.
SkipContradictions ==
    /\ pc = "consult"
    /\ ~answer_hit
    /\ ~detects
    /\ contradictions' = None
    /\ calls' = consulted(calls)
    /\ pc' = "synth"
    /\ UNCHANGED <<use_cache, cacheVars, user_question, detect_contradictions, top_k_papers,
                   use_cached, queries, qi, all_papers, seen_paper_ids, top_papers, paper_ids,
                   result, histVars, rerank_in, directVars, embedVars>>

\* Lines 118-134: synthesis, the answer-cache write and the return.
Synthesize(answer) ==
    /\ pc = "synth"
    /\ answers_dir' = IF use_cache /\ Truthy(paper_ids)
                      THEN cache_answer(user_question, paper_ids, answer)
                      ELSE answers_dir
    /\ calls' = [calls EXCEPT
                    !.synth = @ + 1,
                    !.answer_writes = IF use_cache /\ Truthy(paper_ids) THEN @ + 1 ELSE @]
    /\ result' = fresh_result(answer)
    /\ pc' = "done"
    /\ UNCHANGED <<use_cache, dirs, papers_dir, user_question, detect_contradictions,
                   top_k_papers, use_cached, queries, qi, all_papers, seen_paper_ids,
                   top_papers, paper_ids, contradictions, histVars, rerank_in, directVars, embedVars>>

\* Line 118: the LLM call of synthesize_findings raises.
SynthesizeFails ==
    /\ pc = "synth"
    /\ calls' = [calls EXCEPT !.synth = @ + 1, !.llm_raised = TRUE]
    /\ pc' = raised
    /\ UNCHANGED <<use_cache, cacheVars, user_question, detect_contradictions, top_k_papers,
                   use_cached, queries, qi, all_papers, seen_paper_ids, top_papers, paper_ids,
                   contradictions, result, histVars, rerank_in, directVars, embedVars>>

\* The top papers as a set, without what reranking assigned.
TopSet(papers) ==
    {[papers[i] EXCEPT !.embedding = NoEmbedding, !.relevance_score = 0] :
         i \in 1..Len(papers)}

\* answer_question has returned or raised: the caller has the outcome and the
\* locals are gone.
Return ==
    /\ pc \in {"done", "failed"}
    /\ fetched_prev' =
           IF use_cache
           THEN fetched_prev \cup calls.api_found
           ELSE fetched_prev
    /\ synth_prev' =
           IF use_cache /\ pc = "done" /\ calls.synth > 0
           THEN synth_prev \cup {[question |-> user_question, papers |-> TopSet(top_papers),
                                  answer |-> result.answer]}
           ELSE synth_prev
    /\ pc' = "idle"
    /\ user_question' = <<>>
    /\ detect_contradictions' = FALSE
    /\ top_k_papers' = 0
    /\ use_cached' = FALSE
    /\ queries' = <<>>
    /\ qi' = 0
    /\ all_papers' = <<>>
    /\ seen_paper_ids' = {}
    /\ top_papers' = <<>>
    /\ paper_ids' = <<>>
    /\ contradictions' = None
    /\ result' = NoResult
    /\ calls' = NoCalls
    /\ rerank_in' = <<>>
    /\ UNCHANGED <<use_cache, cacheVars, runs, directVars, embedVars>>

\* EnhancedMedQueryBot.clear_cache between invocations.
ClearCache ==
    /\ pc = "idle"
    /\ runs > 0
    /\ IF use_cache THEN clear_cache ELSE UNCHANGED cacheVars
    /\ fetched_prev' = {}
    /\ synth_prev' = {}
    /\ UNCHANGED <<use_cache, runVars, runs, rerank_in, directVars, embedVars>>

Next ==
    \/ \E question \in QuestionPool, dc \in BOOLEAN, top_k \in TopKPool, uc \in BOOLEAN :
        \/ \E qs \in SeqsUpTo(QueryPool, MaxQueries) : GenerateQueries(question, dc, top_k, uc, qs)
        \/ GenerateQueriesFails(question, dc, top_k, uc)
    \/ LoopCacheHit
    \/ \E response \in Responses : LoopFetch(response)
    \/ ReturnNoPapers
    \/ Rerank
    \/ AnswerCacheHit
    \/ \E analysis \in AnalysisPool : DetectContradictions(analysis)
    \/ DetectContradictionsFails
    \/ SkipContradictions
    \/ \E answer \in AnswerPool(runs) : Synthesize(answer)
    \/ SynthesizeFails
    \/ Return
    \/ ClearCache

Spec == Init /\ [][Next]_vars

(***************************************************************************)
(* SpecCorrupt: the bot of Spec on a machine where a file of the papers    *)
(* cache can be damaged between two invocations.  Under Spec every cache   *)
(* file is one that cache_papers wrote.                                    *)
(***************************************************************************)
MaxCorrupt == 1       \* cache files that are damaged at the same time

MalformedContents(query) == {NotJson, NoPayload(query), NoPaperId(query)}

CorruptEntry(query, content) ==
    /\ pc = "idle"
    /\ use_cache
    /\ _get_cache_key(query) \in DOMAIN papers_dir
    /\ ~malformed(query)
    /\ Cardinality({q \in QueryPool : malformed(q)}) < MaxCorrupt
    /\ papers_dir' = [papers_dir EXCEPT ![_get_cache_key(query)] = content]
    /\ UNCHANGED <<use_cache, dirs, answers_dir, runVars, histVars, rerank_in, directVars, embedVars>>

NextCorrupt ==
    \/ Next
    \/ LoopCacheRaises
    \/ \E query \in QueryPool : \E content \in MalformedContents(query) :
           CorruptEntry(query, content)

SpecCorrupt == Init /\ [][NextCorrupt]_vars

(***************************************************************************)
(* SpecDetect: lines 109-114 of answer_question entered with any list of   *)
(* top papers and no cached answer, and detect_contradictions called       *)
(* directly on the same lists.                                             *)
(***************************************************************************)
MaxDetectLen == 7     \* length of the list given to detect_contradictions

InitDetect ==
    /\ use_cache = FALSE
    /\ FreshCache
    /\ NoHistory
    /\ NoDirect
    /\ FreshRetriever
    /\ pc = "consult"
    /\ user_question = <<81>>
    /\ detect_contradictions \in BOOLEAN
    /\ top_k_papers = MaxDetectLen
    /\ use_cached = FALSE
    /\ queries = <<"q1">>
    /\ qi = 2
    /\ top_papers \in SeqsUpTo(PaperPool, MaxDetectLen)
    /\ all_papers = top_papers
    /\ seen_paper_ids = {}
    /\ paper_ids = ids_of(top_papers)
    /\ contradictions = None
    /\ result = NoResult
    /\ calls = NoCalls
    /\ rerank_in = <<>>

\* synthesizer.detect_contradictions(top_papers) called directly; the LLM,
\* if it is called, replies.
DirectDetect(analysis) ==
    /\ pc = "consult"
    /\ contradictions' = Some(detect_contradictions_of(top_papers, analysis))
    /\ calls' = detect_called(calls, top_papers)
    /\ pc' = "detect_done"
    /\ UNCHANGED <<use_cache, cacheVars, user_question, detect_contradictions, top_k_papers,
                   use_cached, queries, qi, all_papers, seen_paper_ids, top_papers, paper_ids,
                   result, histVars, rerank_in, directVars, embedVars>>

NextDetect ==
    \/ \E analysis \in AnalysisPool : DetectContradictions(analysis)
    \/ DetectContradictionsFails
    \/ SkipContradictions
    \/ \E analysis \in AnalysisPool : DirectDetect(analysis)

SpecDetect == InitDetect /\ [][NextDetect]_vars

\* C15: answer_question calls detect_contradictions only when detection was
\* requested and there are at least 2 top papers, and otherwise leaves
\* contradictions None; detect_contradictions given fewer than 2 papers
\* returns the fixed result without a call of the LLM; given 2 or more, the
\* prompt holds the first min(6, n) papers, in input order and numbered from 1.
C15_DetectOnlyWhenRequested ==
    /\ calls.detect > 0 => (detect_contradictions /\ Len(top_papers) >= 2)
    /\ (pc = "synth" /\ ~(detect_contradictions /\ Len(top_papers) >= 2)) =>
           /\ contradictions = None
           /\ calls.detect = 0
           /\ calls.llm_detect = 0
    /\ (pc = "synth" /\ detect_contradictions /\ Len(top_papers) >= 2) =>
           /\ calls.detect = 1
           /\ contradictions.some
    /\ (pc = "detect_done" /\ Len(top_papers) < 2) =>
           /\ contradictions = Some([analysis |-> "Not enough papers to detect contradictions."])
           /\ calls.llm_detect = 0
           /\ calls.detect_prompt = None
    /\ calls.llm_detect > 0 =>
           /\ Len(top_papers) >= 2
           /\ calls.llm_detect = 1
           /\ calls.detect_prompt.some
           /\ LET prompt == calls.detect_prompt.v IN
               /\ Len(prompt) = Min(6, Len(top_papers))
               /\ \A i \in 1..Len(prompt) :
                      /\ prompt[i].number = i
                      /\ prompt[i].abstract = top_papers[i].abstract
                      /\ prompt[i].year = top_papers[i].year
                      /\ prompt[i].citation_count = top_papers[i].citation_count

\* detect_contradictions was given 7 papers, the last one unlike the sixth.
C15_Witness ==
    /\ pc = "detect_done"
    /\ Len(top_papers) = 7
    /\ top_papers[7] # top_papers[6]
    /\ calls.llm_detect = 1
    /\ Len(calls.detect_prompt.v) = 6
    /\ contradictions.v.analysis \in AnalysisPool

(***************************************************************************)
(* SpecEmbed: get_embedding called directly on one retriever, with or      *)
(* without a loaded model; a call of the model can raise.                  *)
(***************************************************************************)
MaxEmbedCalls == 3    \* direct get_embedding calls

EmbedTexts ==
    {Text(<<>>, ""), Text(<<"a">>, ""), Text(<<"b", "a", "a">>, "x"),
     Text(<<"b", "a", "a">>, "y")}

\* The vectors that get_embedding has returned for the text so far.
returned_for(text) ==
    IF text \in DOMAIN embed_log.returned THEN embed_log.returned[text] ELSE {}

InitEmbed ==
    /\ use_cache = FALSE
    /\ FreshCache
    /\ IdleRun
    /\ NoHistory
    /\ NoDirect
    /\ embedding_model \in BOOLEAN
    /\ hash_seed \in {0, 1}
    /\ _embedding_cache = <<>>
    /\ embed_log = NoEmbedLog
    /\ n_embed = 0

GetEmbedding(text, encode_raises) ==
    /\ n_embed < MaxEmbedCalls
    /\ LET r == get_embedding(text, encode_raises)
       IN  /\ _embedding_cache' = r.cache
           /\ embed_log' =
                  [returned |-> (text :> (returned_for(text) \cup {r.value}))
                                    @@ embed_log.returned,
                   last |-> Some([text |-> text, value |-> r.value,
                                  before |-> returned_for(text),
                                  encoded |-> r.encoded, simple |-> r.simple])]
    /\ n_embed' = n_embed + 1
    /\ UNCHANGED <<use_cache, cacheVars, runVars, histVars, rerank_in, directVars,
                   embedding_model, hash_seed>>

NextEmbed == \E text \in EmbedTexts, encode_raises \in BOOLEAN : GetEmbedding(text, encode_raises)

SpecEmbed == InitEmbed /\ [][NextEmbed]_vars

\* C14 (as stated): every get_embedding call on a text returns the vector
\* that the earlier calls on that text returned, with or without a model
\* and whether or not a call of the model raised.
C14_EmbeddingDeterministic ==
    /\ \A text \in DOMAIN embed_log.returned : Cardinality(embed_log.returned[text]) = 1
    /\ (embed_log.last.some /\ embed_log.last.v.before # {}) =>
           embed_log.last.v.before = {embed_log.last.v.value}

(***************************************************************************)
(* Properties of answer_question (checked under Spec).                     *)
(***************************************************************************)
\* The retrieval loop of the current invocation is over.
AfterLoop == pc \in {"loop", "consult", "synth", "done", "failed"} /\ qi > Len(queries)

\* C1: the accumulated papers never hold a non-empty paper_id twice, and once
\* the retrieval loop is over every non-empty paper_id that a query returned,
\* from the cache or from the API, is held exactly once.
C1_NoDuplicatePaperIds ==
    /\ \A i, j \in 1..Len(all_papers) :
           (i # j /\ all_papers[i].paper_id # ID_NONE)
               => all_papers[i].paper_id # all_papers[j].paper_id
    /\ AfterLoop =>
           \A id \in calls.returned \ {ID_NONE} :
               Cardinality({i \in 1..Len(all_papers) : all_papers[i].paper_id = id}) = 1

\* A query served from the cache and a query sent to the API returned the same paper_id.
C1_Witness ==
    /\ AfterLoop
    /\ calls.shared
    /\ calls.hits # {}
    /\ calls.api # {}
    /\ Len(all_papers) = 2

\* C2 (as stated, in the case where the earlier search returned papers and
\* the cache was not cleared since): a run with use_cached=True on a bot
\* with a cache does not send to the search API a query that an earlier run
\* has fetched.
C2_NoRefetch ==
    (use_cached /\ use_cache) => calls.api \cap fetched_prev = {}

\* C3 (as stated): a run with use_cached=True that ends with the question and
\* top paper set for which an earlier run (no clear since) synthesized an
\* answer returns that answer with from_cache = true and calls neither
\* detect_contradictions nor synthesize_findings.
C3_SameSetSameAnswer ==
    (pc = "done" /\ use_cached /\ use_cache) =>
        \A h \in synth_prev :
            (h.question = user_question /\ h.papers = TopSet(top_papers)) =>
                /\ "from_cache" \in DOMAIN result
                /\ result.from_cache
                /\ result.answer = h.answer
                /\ calls.detect = 0
                /\ calls.synth = 0

\* C9: a run whose retrieval loop ends with no paper returns the fixed
\* "No papers found" result with zero counts and an empty list, and no later
\* stage runs: no rerank, no answer-cache read or write, no LLM call.
C9_NoPapersShortCircuit ==
    /\ (AfterLoop /\ all_papers = <<>>) => pc \in {"loop", "done"}
    /\ (pc = "done" /\ all_papers = <<>>) =>
           /\ result = [question |-> user_question, queries_used |-> queries,
                        papers_analyzed |-> 0, papers_used |-> 0, papers |-> <<>>,
                        contradictions |-> None,
                        answer |-> "No papers found. Try rephrasing your question or broadening the scope."]
           /\ calls.rerank = 0
           /\ calls.answer_reads = 0
           /\ calls.answer_writes = 0
           /\ calls.detect = 0
           /\ calls.synth = 0
           /\ top_papers = <<>>

\* Two queries were sent to the search API and nothing came back.
C9_Witness ==
    /\ pc = "done"
    /\ all_papers = <<>>
    /\ Len(queries) = 2
    /\ calls.sleeps = 2
    /\ result.papers_analyzed = 0

C11_SearchFailureNotFatal ==
    /\ (calls.search.some /\ calls.search.v.failed) =>
           /\ calls.search.v.papers = <<>>
           /\ pc = "loop"
    /\ pc = "failed" => calls.llm_raised
    /\ (AfterLoop /\ calls.api_failed # {}) =>
           \A id \in calls.returned : \E i \in 1..Len(all_papers) : all_papers[i].paper_id = id
    /\ (pc = "done" /\ calls.api_failed # {} /\ calls.returned # {}) =>
           /\ result.papers_analyzed = Len(all_papers)
           /\ result.papers_analyzed > 0
           /\ result.papers_used = Len(top_papers)
           /\ calls.rerank = 1
           /\ calls.synth = 1 \/ result.from_cache

\* The search for the first query failed, the second query was sent to the
\* API and returned papers, and they were reranked and synthesized.
C11_Witness ==
    /\ pc = "done"
    /\ Len(queries) = 2
    /\ calls.api_failed = {1}
    /\ calls.hits = {}
    /\ calls.sleeps = 2
    /\ Len(all_papers) = 2
    /\ calls.synth = 1
    /\ result.answer \in AnswerPool(runs)

\* C12: when an LLM call raises (query generation, contradiction detection
\* or synthesis) the run ends as failed with no result and without a write to
\* the answer cache; the answer cache changes only in the step in which
\* synthesize_findings returned, and then holds the returned answer.
C12_LLMFailureFatalNoWrite ==
    [][/\ calls'.llm_raised =>
              /\ pc' = "failed"
              /\ result' = NoResult
              /\ calls'.answer_writes = 0
              /\ answers_dir' = answers_dir
       /\ (answers_dir' # answers_dir /\ pc' # "idle") =>
              /\ pc = "synth"
              /\ pc' = "done"
              /\ calls'.synth = calls.synth + 1
              /\ ~calls'.llm_raised
              /\ get_cached_answer(user_question, paper_ids)' = Some(result'.answer)
              /\ ~result'.from_cache]_vars

\* A run whose contradiction detection raised, on a bot with a cache, after
\* an earlier run had cached an answer.
C12_Witness ==
    /\ pc = "failed"
    /\ calls.llm_raised
    /\ calls.detect = 1
    /\ calls.synth = 0
    /\ use_cache
    /\ Truthy(paper_ids)
    /\ answers_dir # EmptyDir
    /\ runs = 2

\* C13 (as stated): a run that reads a malformed papers entry for a query
\* does not fail because of it and sends the query to the search API; when
\* the fetch brings new papers the entry is written afresh and is well formed.
C13_MalformedEntryIsMiss ==
    /\ pc = "failed" => calls.llm_raised
    /\ (AfterLoop \/ pc = "failed") => calls.malformed \subseteq calls.api
    /\ \A query \in calls.malformed \cap calls.wrote :
           /\ ~malformed(query)
           /\ get_cached_papers(query).some

PipelineResultFields ==
    {"question", "queries_used", "papers_analyzed", "papers_used", "papers",
     "contradictions", "answer", "from_cache"}

\* C16 (as stated): every returned result has all the PipelineResult fields,
\* from_cache is a boolean, and it is true exactly when the answer came from
\* the answer cache.
C16_ResultHasAllFields ==
    pc = "done" =>
        /\ DOMAIN result = PipelineResultFields
        /\ result.from_cache \in BOOLEAN
        /\ result.from_cache <=> calls.consult.some

\* The papers of a list are pairwise different.
NoRepeats(papers) == \A i, j \in 1..Len(papers) : i # j => papers[i] # papers[j]

\* C17 (as stated): right after a query was fetched on a bot with a cache, the
\* search having returned at least one paper and no paper twice, the papers
\* entry of the query holds the records of all the returned papers in order.
C17_EntryHoldsFetchedList ==
    (pc = "loop" /\ use_cache /\ calls.search.some /\ Truthy(calls.search.v.papers)
        /\ NoRepeats(calls.search.v.papers)) =>
        get_cached_papers(queries[qi - 1])
            = Some([i \in 1..Len(calls.search.v.papers) |-> paper_dict(calls.search.v.papers[i])])

\* C18 (as stated): a step of a run never changes or removes an existing
\* papers entry (clear_cache, called between runs, aside).
C18_EntryWrittenOnce ==
    [][pc # "idle" =>
          \A cache_file \in DOMAIN papers_dir :
              /\ cache_file \in DOMAIN papers_dir'
              /\ papers_dir'[cache_file] = papers_dir[cache_file]]_vars

\* C19 (as stated): once the retrieval loop is over, every paper without
\* paper_id that a query returned, from the cache or from the API, is
\* accumulated under its title.
C19_CachedIdlessKept ==
    AfterLoop =>
        \A title \in calls.idless :
            \E i \in 1..Len(all_papers) :
                all_papers[i].title = title /\ all_papers[i].paper_id = ID_NONE

\* C20 (as stated): the accumulated papers never hold a paper without
\* paper_id whose title another accumulated paper has.
C20_IdlessTitlesUnique ==
    \A i, j \in 1..Len(all_papers) :
        (i # j /\ all_papers[i].paper_id = ID_NONE)
            => all_papers[i].title # all_papers[j].title

\* C21: the step that sends a query to the search API, whether the search
\* returns papers, nothing or fails, ends with one rate-limit sleep before
\* the loop moves to the next query; the step that serves a query from the
\* papers cache sleeps not at all; and no other step of a run sleeps.
C21_SleepAfterEveryFetch ==
    [][/\ (pc = "loop" /\ qi' = qi + 1 /\ calls'.search.some) =>
              /\ queries[qi] \in calls'.api
              /\ calls'.sleeps = calls.sleeps + 1
       /\ (pc = "loop" /\ qi' = qi + 1 /\ ~calls'.search.some) =>
              /\ queries[qi] \in calls'.hits
              /\ calls'.api = calls.api
              /\ calls'.sleeps = calls.sleeps
       /\ (pc # "idle" /\ pc' # "idle" /\ qi' = qi) => calls'.sleeps = calls.sleeps
       /\ pc' = "loop" => calls'.sleeps <= qi' - 1]_vars

\* A run in which one query was served from the cache and the search for
\* the other failed: one sleep.
C21_Witness ==
    /\ AfterLoop
    /\ Len(queries) = 2
    /\ calls.hits # {}
    /\ calls.api_failed # {}
    /\ calls.sleeps = 1

\* C22 (as stated): once get_embedding has returned for a text, a later
\* get_embedding call on the same text invokes neither the embedding model
\* nor the fallback computation, whichever path the earlier call took.
\* Checked under SpecEmbed.
C22_CachePreventsRecomputation ==
    (embed_log.last.some /\ embed_log.last.v.before # {}) =>
        /\ ~embed_log.last.v.encoded
        /\ ~embed_log.last.v.simple

\* C23 (as stated, for a bot with a cache and a run that found papers): a
\* run with use_cached=False that has returned read neither cache (no query
\* was served from the papers cache, every query went to the search API, the
\* answer cache was not consulted, synthesis ran, from_cache is false) and
\* wrote both: the papers entry of each query that yielded new papers, and
\* the answer entry of the question and the top paper ids, which now holds
\* the returned answer.
C23_UncachedRunReadsNothingWritesBoth ==
    (pc = "done" /\ ~use_cached /\ use_cache /\ Truthy(all_papers)) =>
        /\ calls.hits = {}
        /\ calls.malformed = {}
        /\ calls.api = Range(queries)
        /\ calls.answer_reads = 0
        /\ ~calls.consult.some
        /\ calls.synth = 1
        /\ ~result.from_cache
        /\ calls.wrote # {}
        /\ \A query \in calls.wrote : get_cached_papers(query).some
        /\ calls.answer_writes = 1
        /\ get_cached_answer(user_question, paper_ids) = Some(result.answer)

====
